---- MODULE Spec2Model ----
(***************************************************************************)
(* Cost analytics of claude-code-costs: the pricing table and              *)
(* calculateCost, the line-by-line session parser (parseJSONLFile, in its  *)
(* basic and its enhanced variant), the scan of the projects directory,    *)
(* the daily aggregation, the 30 day series, the cost ranking and main.    *)
(*                                                                         *)
(* Representation.                                                         *)
(*  - A JavaScript number is a record [nan, v]: v is the value when nan is *)
(*    FALSE.  Money is counted in units of 10^-8 USD, so that a price of   *)
(*    p USD per million tokens is the integer 100*p and                    *)
(*    (tokens * price) / 1000000 is the integer tokens * (100*p).          *)
(*  - A JavaScript object is a function whose domain is the set of the     *)
(*    properties it owns; an absent property is a name outside the domain. *)
(*  - A text is a sequence of one-character strings.                       *)
(*  - An instant is a whole number of hours since the epoch; a calendar    *)
(*    date string YYYY-MM-DD is the number of the day it names.            *)
(***************************************************************************)
EXTENDS Integers, Sequences, FiniteSets, TLC

VARIABLES
  pc,              \* position of the run being modelled
  usage,           \* calculateCost: the usage argument
  model,           \* calculateCost: the model argument
  cost,            \* calculateCost: the returned value
  variant,         \* parseJSONLFile: which script's parser runs ("basic" | "enhanced")
  fed,             \* parseJSONLFile: the lines read so far, in log order
  acc,             \* parseJSONLFile: its local variables
  result,          \* parseJSONLFile: the Session Summary returned
  jobs,            \* the calls of parseJSONLFile in flight, one per file: their local variables
  files,           \* the log files under the projects directory, in directory order
  fsys,            \* what of the projects directory can be stat-ed, listed and read
  conversations,   \* the corpus analyzeAllConversations returned
  now,             \* the instant the clock shows (new Date())
  tz,              \* the machine's local time zone
  called,          \* the functions that have run on the corpus
  daily,           \* what aggregateDailyCosts(conversations) returned
  days,            \* what getLast30Days() returned
  shown,           \* what displaySummary printed
  report           \* what createHTMLReport computed

costVars == <<usage, model, cost>>

parseVars == <<variant, fed, acc, result, jobs>>

reportVars == <<files, fsys, conversations, now, tz, called, daily, days, shown, report>>

vars == <<pc, usage, model, cost, variant, fed, acc, result, jobs,
          files, fsys, conversations, now, tz, called, daily, days, shown, report>>

-----------------------------------------------------------------------------
(* JavaScript numbers *)

Num(n) == [nan |-> FALSE, v |-> n]

NaN == [nan |-> TRUE, v |-> 0]

\* a + b
JsAdd(a, b) == IF a.nan \/ b.nan THEN NaN ELSE Num(a.v + b.v)

\* a * b
JsMul(a, b) == IF a.nan \/ b.nan THEN NaN ELSE Num(a.v * b.v)

\* a > 0 (false for NaN)
JsPositive(a) == ~a.nan /\ a.v > 0

\* truthiness of a number: neither 0 nor NaN
JsTruthy(a) == ~a.nan /\ a.v # 0

\* a / n for a count n, kept as the fraction num/den: 0 / 0 is NaN and a
\* positive number over 0 is Infinity; toFixed(4) prints these as "NaN" and
\* "Infinity"
JsDivide(a, n) ==
  IF a.nan \/ (n = 0 /\ a.v = 0) THEN [kind |-> "NaN", num |-> 0, den |-> 0]
  ELSE IF n = 0 THEN [kind |-> "Infinity", num |-> 0, den |-> 0]
  ELSE [kind |-> "finite", num |-> a.v, den |-> n]

\* the value `undefined`, for an argument or a property that is absent
Undefined == [undefined |-> TRUE]

\* obj.name || 0 for a numeric property of an object
OrZero(obj, name) == IF name \in DOMAIN obj /\ obj[name] # 0 THEN obj[name] ELSE 0

-----------------------------------------------------------------------------
(* Pricing table: prices in hundredths of a USD per million tokens *)

Price(i, o, cw, cr) == [input |-> i, output |-> o, cache_write |-> cw, cache_read |-> cr]

OpusPrice == Price(1500, 7500, 1875, 150)

SonnetPrice == Price(300, 1500, 375, 30)

Haiku35Price == Price(80, 400, 100, 8)

Haiku3Price == Price(25, 125, 30, 3)

\* the own properties of the CLAUDE_PRICING object literal
CLAUDE_PRICING ==
  [k \in {"claude-opus-4-20250514", "claude-sonnet-4-20250514",
          "claude-3-7-sonnet-20250219", "claude-3-7-sonnet-latest",
          "claude-3-5-sonnet-20241022", "claude-3-5-sonnet-20240620",
          "claude-3-5-sonnet-latest", "claude-3-5-haiku-20241022",
          "claude-3-5-haiku-latest", "claude-3-opus-20240229",
          "claude-3-opus-latest", "claude-3-sonnet-20240229",
          "claude-3-haiku-20240307", "default"} |->
     CASE k \in {"claude-opus-4-20250514", "claude-3-opus-20240229",
                 "claude-3-opus-latest"} -> OpusPrice
       [] k \in {"claude-3-5-haiku-20241022", "claude-3-5-haiku-latest"} -> Haiku35Price
       [] k = "claude-3-haiku-20240307" -> Haiku3Price
       [] OTHER -> SonnetPrice]

\* The properties every object literal inherits from Object.prototype: a
\* lookup of one of these names on CLAUDE_PRICING yields a function or an
\* object, which is truthy and has none of the four price properties.
ObjectPrototypeProps ==
  {"constructor", "toString", "valueOf", "hasOwnProperty", "isPrototypeOf",
   "propertyIsEnumerable", "toLocaleString", "__proto__"}

\* CLAUDE_PRICING[model] || CLAUDE_PRICING['default']: the table's own entry;
\* for an inherited name a truthy value none of whose price properties is
\* defined (Undefined); the default entry otherwise
PricingLookup(m) ==
  IF m \in DOMAIN CLAUDE_PRICING THEN CLAUDE_PRICING[m]
  ELSE IF m \in ObjectPrototypeProps THEN Undefined
  ELSE CLAUDE_PRICING["default"]

\* pricing.kind as a number: undefined turns the product into NaN
PriceOf(pricing, kind) == IF kind \in DOMAIN pricing THEN Num(pricing[kind]) ELSE NaN

\* ((usage.field || 0) * pricing.kind) / 1000000
TokenCost(u, field, pricing, kind) == JsMul(Num(OrZero(u, field)), PriceOf(pricing, kind))

\* calculateCost with only the input tokens charged
calculateCostInputOnly(u, m) ==
  IF u = Undefined THEN Num(0)
  ELSE TokenCost(u, "input_tokens", PricingLookup(m), "input")

\* calculateCost with the cache-read term forgotten
calculateCostNoCacheRead(u, m) ==
  IF u = Undefined THEN Num(0)
  ELSE LET pricing == PricingLookup(m)
       IN JsAdd(JsAdd(TokenCost(u, "input_tokens", pricing, "input"),
                      TokenCost(u, "output_tokens", pricing, "output")),
                TokenCost(u, "cache_creation_input_tokens", pricing, "cache_write"))

calculateCost(u, m) ==
  IF u = Undefined THEN Num(0)
  ELSE LET pricing == PricingLookup(m)
           inputCost == TokenCost(u, "input_tokens", pricing, "input")
           outputCost == TokenCost(u, "output_tokens", pricing, "output")
           cacheWriteCost == TokenCost(u, "cache_creation_input_tokens", pricing, "cache_write")
           cacheReadCost == TokenCost(u, "cache_read_input_tokens", pricing, "cache_read")
       IN JsAdd(JsAdd(JsAdd(inputCost, outputCost), cacheWriteCost), cacheReadCost)

-----------------------------------------------------------------------------
(* Texts and dates *)

\* a string value
Str(chars) == [str |-> TRUE, chars |-> chars]

\* a truthy value that is not a string (a number, an object, true)
NonString == [str |-> FALSE, chars |-> <<>>]

\* truthiness of a value held where a text is expected: all but ''
Truthy(v) == ~v.str \/ v.chars # <<>>

TitleMax == 100

\* chars.substring(0, 100)
Substring100(chars) == SubSeq(chars, 1, IF Len(chars) < TitleMax THEN Len(chars) ELSE TitleMax)

\* chars.replace(/\n/g, ' ')
ReplaceNewlines(chars) == [i \in 1..Len(chars) |-> IF chars[i] = "\n" THEN " " ELSE chars[i]]

\* a || b for two values held where a text is expected
OrElse(a, b) == IF Truthy(a) THEN a ELSE b

Unknown == Str(<<"U", "n", "k", "n", "o", "w", "n">>)

Untitled ==
  Str(<<"U", "n", "t", "i", "t", "l", "e", "d", " ",
        "c", "o", "n", "v", "e", "r", "s", "a", "t", "i", "o", "n">>)

\* Date values: null, a valid Date at an instant, or an Invalid Date
NullDate == [kind |-> "null", time |-> 0]

InvalidDate == [kind |-> "invalid", time |-> 0]

DateAt(t) == [kind |-> "date", time |-> t]

\* a timestamp string: an ISO 8601 text naming instant t, or some other text
Iso(t) == [iso |-> TRUE, t |-> t]

GarbageTs == [iso |-> FALSE, t |-> 0]

\* new Date(string)
NewDate(ts) == IF ts.iso THEN DateAt(ts.t) ELSE InvalidDate

\* a < b on Dates: false when either is an Invalid Date
DateLess(a, b) == a.kind = "date" /\ b.kind = "date" /\ a.time < b.time

MinutesPerHour == 60

\* (endTime - startTime) / 1000 / 60: minutes between two Dates
MinutesBetween(s, e) ==
  IF s.kind = "date" /\ e.kind = "date" THEN Num((e.time - s.time) * MinutesPerHour) ELSE NaN

-----------------------------------------------------------------------------
(* parseJSONLFile: one line *)

\* what JSON.parse throws on
Unparseable == [unparseable |-> TRUE]

\* the JSON text null
JsonNull == [jsonNull |-> TRUE]

\* obj.name is present and truthy, for a property holding a text
HasText(obj, name) == name \in DOMAIN obj /\ Truthy(obj[name])

TypeIs(message, t) == "type" \in DOMAIN message /\ message.type = t

\* the local variables of parseJSONLFile before the first line
AccInit ==
  [totalCost |-> Num(0), messageCount |-> 0, conversationName |-> Str(<<>>),
   conversationTitle |-> Str(<<>>), startTime |-> NullDate, endTime |-> NullDate,
   summary |-> Str(<<>>), firstUserMessage |-> Str(<<>>)]

\* a summary block that sets conversationName only while it is empty
SummaryBlockKeepName(a, message) ==
  IF ~TypeIs(message, "summary") THEN a
  ELSE LET a1 == IF HasText(message, "summary")
                 THEN [a EXCEPT !.summary = message.summary] ELSE a
       IN IF "metadata" \notin DOMAIN message THEN a1
          ELSE LET md == message.metadata
                   name == IF HasText(md, "workingDirectory") THEN md.workingDirectory
                           ELSE IF HasText(md, "cwd") THEN md.cwd ELSE Unknown
                   a2 == IF Truthy(a1.conversationName) THEN a1
                         ELSE [a1 EXCEPT !.conversationName = name]
                   a3 == IF HasText(md, "thread_summary")
                         THEN [a2 EXCEPT !.conversationTitle = md.thread_summary] ELSE a2
               IN IF HasText(md, "summary")
                  THEN [a3 EXCEPT !.conversationTitle = md.summary] ELSE a3

\* if (message.type === 'summary') { ... }
SummaryBlock(a, message) ==
  IF ~TypeIs(message, "summary") THEN a
  ELSE LET a1 == IF HasText(message, "summary")
                 THEN [a EXCEPT !.summary = message.summary] ELSE a
       IN IF "metadata" \notin DOMAIN message THEN a1
          ELSE LET md == message.metadata
                   name == IF HasText(md, "workingDirectory") THEN md.workingDirectory
                           ELSE IF HasText(md, "cwd") THEN md.cwd ELSE Unknown
                   a2 == [a1 EXCEPT !.conversationName = name]
                   a3 == IF HasText(md, "thread_summary")
                         THEN [a2 EXCEPT !.conversationTitle = md.thread_summary] ELSE a2
               IN IF HasText(md, "summary")
                  THEN [a3 EXCEPT !.conversationTitle = md.summary] ELSE a3

\* a guard that lets every user record with a text through
UserGuardLastWins(a, message) == TypeIs(message, "user") /\ HasText(message, "text")

\* the guard of the first-user-message capture

UserGuard(a, message) ==
  TypeIs(message, "user") /\ ~Truthy(a.firstUserMessage) /\ HasText(message, "text")

\* message.text.substring(0, 100) raises a TypeError when text is not a string
UserThrows(a, message) == UserGuard(a, message) /\ ~message.text.str

UserBlock(a, message) ==
  IF UserGuard(a, message)
  THEN [a EXCEPT !.firstUserMessage = Str(Substring100(message.text.chars))]
  ELSE a

\* a turn: totalCost += c; messageCount++
AddTurn(a, c) ==
  [a EXCEPT !.totalCost = JsAdd(a.totalCost, c), !.messageCount = a.messageCount + 1]

\* enhanced: the record carries message.usage and a truthy message.model
HasUsage(message) ==
  /\ TypeIs(message, "assistant")
  /\ "message" \in DOMAIN message
  /\ "usage" \in DOMAIN message.message
  /\ "model" \in DOMAIN message.message
  /\ message.message.model # ""

\* basic: the record carries a truthy costUSD
HasCostUSD(message) ==
  TypeIs(message, "assistant") /\ "costUSD" \in DOMAIN message /\ JsTruthy(message.costUSD)

\* a parser that takes a direct costUSD first and computes from usage otherwise
CostBlockEitherSource(v, a, message) ==
  IF HasCostUSD(message) THEN AddTurn(a, message.costUSD)
  ELSE IF HasUsage(message)
       THEN AddTurn(a, calculateCost(message.message.usage, message.message.model))
       ELSE a

\* the cost extraction of the variant v
CostBlock(v, a, message) ==
  IF v = "enhanced"
  THEN IF HasUsage(message)
       THEN AddTurn(a, calculateCost(message.message.usage, message.message.model))
       ELSE a
  ELSE IF HasCostUSD(message) THEN AddTurn(a, message.costUSD) ELSE a

\* if (message.timestamp) { ... }
TimestampBlock(a, message) ==
  IF "timestamp" \notin DOMAIN message THEN a
  ELSE LET timestamp == NewDate(message.timestamp)
           a1 == IF a.startTime = NullDate \/ DateLess(timestamp, a.startTime)
                 THEN [a EXCEPT !.startTime = timestamp] ELSE a
       IN IF a1.endTime = NullDate \/ DateLess(a1.endTime, timestamp)
          THEN [a1 EXCEPT !.endTime = timestamp] ELSE a1

\* a loop body that tracks the time range before it reads the user text
ProcessLineTimestampFirst(v, a, line) ==
  IF line = Unparseable \/ line = JsonNull THEN a
  ELSE LET a1 == TimestampBlock(SummaryBlock(a, line), line)
       IN IF UserThrows(a1, line) THEN a1
          ELSE CostBlock(v, UserBlock(a1, line), line)

\* a parser whose catch block starts the session over
ProcessLineResetOnError(v, a, line) ==
  IF line = Unparseable \/ line = JsonNull THEN AccInit
  ELSE TimestampBlock(CostBlock(v, UserBlock(SummaryBlock(a, line), line), line), line)

\* The body of the for-await loop for one line: try { ... } catch (e) {}.
\* An exception leaves the variables as assigned up to the throw.
ProcessLine(v, a, line) ==
  IF line = Unparseable \/ line = JsonNull THEN a
  ELSE LET a1 == SummaryBlock(a, line)
       IN IF UserThrows(a1, line) THEN a1
          ELSE TimestampBlock(CostBlock(v, UserBlock(a1, line), line), line)

-----------------------------------------------------------------------------
(* parseJSONLFile: after the loop *)

\* a title resolution that prefers the free-text summary to the metadata title
BestTitleSummaryFirst(a) ==
  OrElse(a.summary, OrElse(a.conversationTitle, OrElse(a.firstUserMessage, Untitled)))

\* if (!conversationTitle) conversationTitle = summary || firstUserMessage || 'Untitled conversation'
BestTitle(a) ==
  IF Truthy(a.conversationTitle) THEN a.conversationTitle
  ELSE OrElse(a.summary, OrElse(a.firstUserMessage, Untitled))

\* conversationTitle.replace(...) raises a TypeError when the title is not a string
FinishThrows(a) == ~BestTitle(a).str

\* the object parseJSONLFile returns; id is path.basename(filePath, '.jsonl')
Finish(a, id) ==
  [conversationId |-> id,
   conversationName |-> a.conversationName,
   conversationTitle |-> Str(Substring100(ReplaceNewlines(BestTitle(a).chars))),
   totalCost |-> a.totalCost,
   messageCount |-> a.messageCount,
   startTime |-> a.startTime,
   endTime |-> a.endTime,
   duration |-> IF a.endTime # NullDate /\ a.startTime # NullDate
                THEN MinutesBetween(a.startTime, a.endTime) ELSE Num(0)]

RECURSIVE ParseLines(_, _, _)
\* the whole loop over the lines of a file, from the variables a
ParseLines(v, a, lines) ==
  IF lines = <<>> THEN a ELSE ParseLines(v, ProcessLine(v, a, Head(lines)), Tail(lines))

-----------------------------------------------------------------------------
(* analyzeAllConversations: the files of the corpus, parsed in directory order *)

\* a log file: its project directory, its name without .jsonl, its lines
LogFile(dir, base, lines) == [projectDir |-> dir, base |-> base, lines |-> lines]

\* await parseJSONLFile(filePath) raises when the title chosen is not a string
ParseThrows(v, f) == FinishThrows(ParseLines(v, AccInit, f.lines))

\* the summary of one file with projectName left unset
ConversationUnnamed(v, f) ==
  [projectName |-> ""] @@ Finish(ParseLines(v, AccInit, f.lines), f.base)

\* conversation.projectName = projectDir on the summary of one file
Conversation(v, f) ==
  [projectName |-> f.projectDir] @@ Finish(ParseLines(v, AccInit, f.lines), f.base)

\* a scanner that pushes every summary it gets
RetainedAlways(v, f) == ~ParseThrows(v, f)

\* whether the summary of a file is pushed on the corpus: the enhanced scanner
\* keeps only the conversations that have messages
Retained(v, f) ==
  /\ ~ParseThrows(v, f)
  /\ (v = "enhanced" => Conversation(v, f).messageCount > 0)

RECURSIVE analyzeAllConversations(_, _)
analyzeAllConversations(v, jsonlFiles) ==
  IF jsonlFiles = <<>> THEN <<>>
  ELSE (IF Retained(v, Head(jsonlFiles)) THEN <<Conversation(v, Head(jsonlFiles))>> ELSE <<>>)
       \o analyzeAllConversations(v, Tail(jsonlFiles))

\* the projects directory exists and all of it can be stat-ed, listed and read
NoFaults ==
  [rootExists |-> TRUE, noStat |-> {}, noList |-> {}, noRead |-> {}, streamErrors |-> "rejects"]

RECURSIVE ReadRoot(_)
\* fs.readdirSync(claudeProjectsDir): the project directories, in the order
\* of their first file
ReadRoot(jsonlFiles) ==
  IF jsonlFiles = <<>> THEN <<>>
  ELSE <<Head(jsonlFiles).projectDir>>
       \o SelectSeq(ReadRoot(Tail(jsonlFiles)), LAMBDA d : d # Head(jsonlFiles).projectDir)

\* fs.readdirSync(projectPath).filter(file => file.endsWith('.jsonl'))
ReadDir(jsonlFiles, dir) == SelectSeq(jsonlFiles, LAMBDA f : f.projectDir = dir)

\* What becomes of the 'error' event of a read stream that cannot be opened
\* or read.  parseJSONLFile attaches no 'error' listener to the stream it
\* hands to readline.  On runtimes whose readline interface forwards the
\* event, the for await loop rejects and the caller's catch sees it; on the
\* older supported ones (Node.js 14) the event has no listener and is raised
\* as an uncaught exception, which ends the process.  Which of the two
\* happens is a property of the runtime the script is started on.
StreamErrorModes == {"rejects", "uncaught"}

RECURSIVE ParseFiles(_, _, _)
\* for (const jsonlFile of jsonlFiles) { try { ... } catch (e) { ... } }
ParseFiles(v, fs, jsonlFiles) ==
  IF jsonlFiles = <<>> THEN [crashed |-> FALSE, conversations |-> <<>>]
  ELSE IF Head(jsonlFiles) \in fs.noRead /\ fs.streamErrors = "uncaught"
  THEN [crashed |-> TRUE, conversations |-> <<>>]
  ELSE LET rest == ParseFiles(v, fs, Tail(jsonlFiles))
           kept == Head(jsonlFiles) \notin fs.noRead /\ Retained(v, Head(jsonlFiles))
       IN [crashed |-> rest.crashed,
           conversations |-> IF rest.crashed THEN <<>>
                             ELSE (IF kept THEN <<Conversation(v, Head(jsonlFiles))>> ELSE <<>>)
                                  \o rest.conversations]

RECURSIVE ScanDirs(_, _, _, _)
\* for (const projectDir of projectDirs) { readdirSync; the files parsed }
ScanDirs(v, fs, jsonlFiles, projectDirs) ==
  IF projectDirs = <<>> THEN [outcome |-> "returned", conversations |-> <<>>]
  ELSE IF Head(projectDirs) \in fs.noList THEN [outcome |-> "threw", conversations |-> <<>>]
  ELSE LET here == ParseFiles(v, fs, ReadDir(jsonlFiles, Head(projectDirs)))
           rest == ScanDirs(v, fs, jsonlFiles, Tail(projectDirs))
       IN IF here.crashed THEN [outcome |-> "crashed", conversations |-> <<>>]
          ELSE IF rest.outcome # "returned" THEN rest
          ELSE [outcome |-> "returned",
                conversations |-> here.conversations \o rest.conversations]

\* analyzeAllConversations() on a projects directory with faults: it returns
\* the corpus, or it throws, or the process ends on an uncaught exception
ScanOutcome(v, fs, jsonlFiles) ==
  LET projectDirs == ReadRoot(jsonlFiles)
      entries == {projectDirs[i] : i \in 1..Len(projectDirs)}
  IN IF ~fs.rootExists THEN [outcome |-> "returned", conversations |-> <<>>]
     \* .filter(dir => fs.statSync(...).isDirectory())
     ELSE IF entries \cap fs.noStat # {} THEN [outcome |-> "threw", conversations |-> <<>>]
     \* the count of the files: only the enhanced script catches what readdirSync raises
     ELSE IF v = "basic" /\ entries \cap fs.noList # {}
     THEN [outcome |-> "threw", conversations |-> <<>>]
     ELSE ScanDirs(v, fs, jsonlFiles, projectDirs)

-----------------------------------------------------------------------------
(* aggregateDailyCosts *)

HoursPerDay == 24

\* date.toISOString().split('T')[0]: the UTC calendar date of an instant
IsoDate(t) == t \div HoursPerDay

\* conv.totalCost >= 0 && conv.startTime
QualifiesNonNegative(conv) == ~conv.totalCost.nan /\ conv.totalCost.v >= 0 /\ conv.startTime # NullDate

\* conv.totalCost > 0 && conv.startTime (an Invalid Date is truthy)
Qualifies(conv) == JsPositive(conv.totalCost) /\ conv.startTime # NullDate

\* conv.startTime.toISOString() raises a RangeError on an Invalid Date
DateKeyThrows(conv) == conv.startTime.kind = "invalid"

\* dailyCosts after conv is added under dateKey; dailyCosts is the sequence
\* of the buckets in the order their keys were created
AddToBucket(dailyCosts, dateKey, conv) ==
  IF \E i \in 1..Len(dailyCosts) : dailyCosts[i].date = dateKey
  THEN [i \in 1..Len(dailyCosts) |->
          IF dailyCosts[i].date = dateKey
          THEN [date |-> dateKey,
                totalCost |-> JsAdd(dailyCosts[i].totalCost, conv.totalCost),
                conversationCount |-> dailyCosts[i].conversationCount + 1,
                conversations |-> Append(dailyCosts[i].conversations, conv)]
          ELSE dailyCosts[i]]
  ELSE Append(dailyCosts,
              [date |-> dateKey, totalCost |-> conv.totalCost,
               conversationCount |-> 1, conversations |-> <<conv>>])

RECURSIVE ForEachConversation(_, _)
\* the forEach loop: the buckets, or the exception that ends it
ForEachConversation(dailyCosts, convs) ==
  IF convs = <<>> THEN [threw |-> FALSE, buckets |-> dailyCosts]
  ELSE LET conv == Head(convs)
       IN IF ~Qualifies(conv) THEN ForEachConversation(dailyCosts, Tail(convs))
          ELSE IF DateKeyThrows(conv) THEN [threw |-> TRUE, buckets |-> <<>>]
          ELSE ForEachConversation(
                 AddToBucket(dailyCosts, IsoDate(conv.startTime.time), conv), Tail(convs))

RECURSIVE InsertByDate(_, _)
InsertByDate(sorted, b) ==
  IF sorted = <<>> THEN <<b>>
  ELSE IF b.date < Head(sorted).date THEN <<b>> \o sorted
  ELSE <<Head(sorted)>> \o InsertByDate(Tail(sorted), b)

RECURSIVE SortByDate(_)
\* .sort((a, b) => a.date.localeCompare(b.date)), a stable sort
SortByDate(buckets) ==
  IF buckets = <<>> THEN <<>>
  ELSE InsertByDate(SortByDate(SubSeq(buckets, 1, Len(buckets) - 1)), buckets[Len(buckets)])

aggregateDailyCosts(convs) ==
  LET each == ForEachConversation(<<>>, convs)
  IN IF each.threw THEN each ELSE [threw |-> FALSE, buckets |-> SortByDate(each.buckets)]

-----------------------------------------------------------------------------
(* getLast30Days *)

\* A time zone: offset std outside daylight-saving time and dst (>= std)
\* within it, which lasts from instant from up to instant to.
Offset(z, t) == IF z.from <= t /\ t < z.to THEN z.dst ELSE z.std

\* the local wall-clock time getDate() and setDate() work on
LocalTime(z, t) == t + Offset(z, t)

\* The instant a wall-clock time names.  A time that names two instants (the
\* clock was set back) names the earlier one; a time the clock skipped is read
\* with the offset in force before the change.
UtcOf(z, wall) ==
  IF Offset(z, wall - z.dst) = z.dst THEN wall - z.dst ELSE wall - z.std

DaysListed == 30

\* date.setDate(date.getDate() - i) on a copy of today
DaysBefore(z, today, i) == UtcOf(z, LocalTime(z, today) - i * HoursPerDay)

\* the loop run once too often
getLast30DaysOneMore(z, today) ==
  [k \in 1..(DaysListed + 1) |-> IsoDate(DaysBefore(z, today, DaysListed + 1 - k))]

\* for (let i = 29; i >= 0; i--) days.push(...)
getLast30Days(z, today) ==
  [k \in 1..DaysListed |-> IsoDate(DaysBefore(z, today, DaysListed - k))]

-----------------------------------------------------------------------------
(* The ranking, displaySummary and createHTMLReport *)

\* c.totalCost >= 0
HasCostNonNegative(c) == ~c.totalCost.nan /\ c.totalCost.v >= 0

\* .filter(c => c.totalCost > 0)
HasCost(c) == JsPositive(c.totalCost)

RECURSIVE Filter(_)
Filter(convs) ==
  IF convs = <<>> THEN <<>>
  ELSE (IF HasCost(Head(convs)) THEN <<Head(convs)>> ELSE <<>>) \o Filter(Tail(convs))

RECURSIVE InsertByCostTiesFirst(_, _)
\* c goes before the first element that costs no more than c
InsertByCostTiesFirst(sorted, c) ==
  IF sorted = <<>> THEN <<c>>
  ELSE IF Head(sorted).totalCost.v <= c.totalCost.v THEN <<c>> \o sorted
  ELSE <<Head(sorted)>> \o InsertByCostTiesFirst(Tail(sorted), c)

RECURSIVE InsertByCost(_, _)
\* c goes after every element that costs at least as much
InsertByCost(sorted, c) ==
  IF sorted = <<>> THEN <<c>>
  ELSE IF Head(sorted).totalCost.v < c.totalCost.v THEN <<c>> \o sorted
  ELSE <<Head(sorted)>> \o InsertByCost(Tail(sorted), c)

RECURSIVE SortByCost(_)
\* .sort((a, b) => b.totalCost - a.totalCost), a stable sort
SortByCost(convs) ==
  IF convs = <<>> THEN <<>>
  ELSE InsertByCost(SortByCost(SubSeq(convs, 1, Len(convs) - 1)), convs[Len(convs)])

\* conversations.sort(...).filter(...): the sort rearranges the array passed in
SortThenFilter(convs) == [input |-> SortByCost(convs), ranking |-> Filter(SortByCost(convs))]

\* conversations.filter(...).sort(...): filter makes a new array and sort
\* rearranges that one in place; input is the array passed in, as the call
\* leaves it
FilterThenSort(convs) == [input |-> convs, ranking |-> SortByCost(Filter(convs))]

RECURSIVE SumCost(_, _)
\* .reduce((sum, c) => sum + c.totalCost, 0)
SumCost(sum, convs) ==
  IF convs = <<>> THEN sum ELSE SumCost(JsAdd(sum, Head(convs).totalCost), Tail(convs))

\* .slice(0, n)
Slice(seq, n) == SubSeq(seq, 1, IF Len(seq) < n THEN Len(seq) ELSE n)

TopShown == 5

TopCharted == 20

\* no average rendered
NoAverage == [kind |-> "none", num |-> 0, den |-> 0]

\* what displaySummary works out and prints
displaySummary(convs) ==
  LET conversationsWithCosts == Filter(convs)
  IN [totalCost |-> SumCost(Num(0), conversationsWithCosts),
      withCosts |-> Len(conversationsWithCosts),
      average |-> JsDivide(SumCost(Num(0), conversationsWithCosts),
                           Len(conversationsWithCosts)),
      analyzed |-> Len(convs),
      sorted |-> FilterThenSort(convs).ranking,
      top |-> Slice(FilterThenSort(convs).ranking, TopShown),
      input |-> FilterThenSort(convs).input]

\* the bucket of a date, when dailyData has one: dailyCostMap[date]
BucketOf(dailyData, date) ==
  {dailyData[i] : i \in {j \in 1..Len(dailyData) : dailyData[j].date = date}}

\* an entry that never looks a bucket up
DayEntryAlwaysEmpty(dailyData, date) ==
  [date |-> date, cost |-> Num(0), conversations |-> <<>>]

\* { date, cost: dailyCostMap[date]?.cost || 0,
\*   conversations: dailyCostMap[date]?.conversations || [] }
DayEntry(dailyData, date) ==
  IF BucketOf(dailyData, date) = {}
  THEN [date |-> date, cost |-> Num(0), conversations |-> <<>>]
  ELSE LET d == CHOOSE b \in BucketOf(dailyData, date) : TRUE
       IN [date |-> date,
           cost |-> IF JsTruthy(d.totalCost) THEN d.totalCost ELSE Num(0),
           conversations |-> d.conversations]

\* what createHTMLReport computes before it renders; it raises what
\* aggregateDailyCosts raises
createHTMLReport(convs, z, today) ==
  LET conversationsWithCosts == FilterThenSort(convs).ranking
      dailyData == aggregateDailyCosts(convs)
      last30Days == getLast30Days(z, today)
  IN IF dailyData.threw
     THEN [threw |-> TRUE, conversationsWithCosts |-> <<>>, totalCost |-> Num(0),
           average |-> NoAverage,
           dailyData |-> <<>>, last30DaysData |-> <<>>, chartData |-> <<>>,
           tableRows |-> <<>>,
           input |-> FilterThenSort(convs).input]
     ELSE [threw |-> FALSE,
           conversationsWithCosts |-> conversationsWithCosts,
           totalCost |-> SumCost(Num(0), conversationsWithCosts),
           average |-> JsDivide(SumCost(Num(0), conversationsWithCosts),
                                Len(conversationsWithCosts)),
           dailyData |-> dailyData.buckets,
           last30DaysData |-> [k \in 1..Len(last30Days) |->
                                 DayEntry(dailyData.buckets, last30Days[k])],
           chartData |-> Slice(conversationsWithCosts, TopCharted),
           tableRows |-> Slice(conversationsWithCosts, TopCharted),
           input |-> FilterThenSort(convs).input]

-----------------------------------------------------------------------------
(* Inputs of calculateCost *)

UsageFields ==
  {"input_tokens", "output_tokens", "cache_creation_input_tokens", "cache_read_input_tokens"}

\* token counts tried for each field (the field may also be absent)
InputTokenVals == {0, 1, 1000000}

OtherTokenVals == {0, 3, 10000}

TokenValsOf(f) == IF f = "input_tokens" THEN InputTokenVals ELSE OtherTokenVals

\* every usage object: a subset of the four fields, each with a count
UsageObjects ==
  UNION {{u \in [S -> InputTokenVals \cup OtherTokenVals] :
            \A f \in S : u[f] \in TokenValsOf(f)} : S \in SUBSET UsageFields}

\* identifiers that are not keys of the table and name nothing inherited
UnknownModels == {"", "claude-3-5-sonnet", "claude-opus-4-20250514 ", "Default", "gpt-4"}

ModelIds == DOMAIN CLAUDE_PRICING \cup UnknownModels \cup ObjectPrototypeProps

-----------------------------------------------------------------------------
(* Inputs of parseJSONLFile: the lines a log may hold *)

TextFix == <<"f", "i", "x">>

TextPlan == <<"p", "l", "a", "n">>

TextTopic == <<"t", "o", "p", "i", "c">>

TextHello == <<"h", "i">>

TextTwoLines == <<"a", "\n", "b">>

\* two lines parted the way Windows parts them
TextCrLf == <<"a", "\r", "\n", "b">>

\* one character more than a title may hold
TextLong == [i \in 1..(TitleMax + 1) |-> "x"]

TextDir == <<"/", "w">>

DirectCostLine == [type |-> "assistant", costUSD |-> Num(150000000), timestamp |-> Iso(5)]

SonnetTurn ==
  [type |-> "assistant", timestamp |-> Iso(20),
   message |-> [model |-> "claude-3-5-sonnet-20241022",
                usage |-> [input_tokens |-> 500000, output_tokens |-> 100000]]]

SampleLines ==
  { Unparseable,
    JsonNull,
    [type |-> "summary", summary |-> Str(TextFix)],
    [type |-> "summary", timestamp |-> Iso(30),
     metadata |-> [cwd |-> Str(TextDir), thread_summary |-> Str(TextPlan)]],
    [type |-> "summary", summary |-> Str(TextTwoLines),
     metadata |-> [workingDirectory |-> Str(TextDir), thread_summary |-> Str(TextPlan),
                   summary |-> Str(TextTopic)]],
    [type |-> "summary", metadata |-> [version |-> Str(TextFix)]],
    [type |-> "summary", summary |-> NonString],
    [type |-> "summary", summary |-> Str(TextCrLf)],
    [type |-> "user", text |-> Str(TextHello), timestamp |-> Iso(50)],
    [type |-> "user", text |-> Str(TextLong)],
    [type |-> "user", text |-> NonString, timestamp |-> Iso(10)],
    [type |-> "user", timestamp |-> Iso(60)],
    SonnetTurn,
    [type |-> "assistant", timestamp |-> Iso(75),
     message |-> [model |-> "claude-3-5-haiku-latest",
                  usage |-> [output_tokens |-> 3, cache_read_input_tokens |-> 10000]]],
    [type |-> "assistant",
     message |-> [model |-> "constructor", usage |-> [input_tokens |-> 1]]],
    [type |-> "assistant",
     message |-> [model |-> "gpt-4", usage |-> [input_tokens |-> 0]]],
    [type |-> "assistant", message |-> [model |-> "claude-3-opus-latest"]],
    [type |-> "assistant", costUSD |-> Num(150000000), timestamp |-> Iso(5)],
    [type |-> "assistant", costUSD |-> Num(25000000),
     message |-> [model |-> "claude-3-haiku-20240307", usage |-> [input_tokens |-> 1000000]]],
    [type |-> "assistant", costUSD |-> Num(0)],
    [type |-> "system", timestamp |-> GarbageTs] }

\* the longest log read
MaxLines == 3

NoSummary == [conversationId |-> ""]

-----------------------------------------------------------------------------
(* Inputs of the scan and of the report: log files, clocks and time zones *)

UserLine == [type |-> "user", text |-> Str(TextHello), timestamp |-> Iso(50)]

HaikuTurn ==
  [type |-> "assistant", timestamp |-> Iso(75),
   message |-> [model |-> "claude-3-5-haiku-latest",
                usage |-> [output_tokens |-> 3, cache_read_input_tokens |-> 10000]]]

BothSourcesLine ==
  [type |-> "assistant", costUSD |-> Num(25000000),
   message |-> [model |-> "claude-3-haiku-20240307", usage |-> [input_tokens |-> 1000000]]]

SampleFiles ==
  { LogFile("projA", "s1", <<SonnetTurn>>),
    LogFile("projB", "s1", <<UserLine>>),
    LogFile("projA", "s2", <<DirectCostLine, HaikuTurn>>),
    LogFile("projB", "s2", <<[type |-> "system", timestamp |-> GarbageTs], SonnetTurn, DirectCostLine>>),
    LogFile("projB", "s3", <<BothSourcesLine>>),
    LogFile("projA", "s3",
            <<[type |-> "assistant",
               message |-> [model |-> "constructor", usage |-> [input_tokens |-> 1]]],
              UserLine>>),
    LogFile("projC", "s4", <<[type |-> "summary", summary |-> NonString], SonnetTurn>>),
    LogFile("projC", "s5", <<UserLine, Unparseable, BothSourcesLine>>),
    LogFile("projC", "s6",
            <<[type |-> "assistant",
               message |-> [model |-> "gpt-4", usage |-> [input_tokens |-> 0]]],
              UserLine>>) }

\* the most log files under the projects directory
MaxFiles == 2

\* the directory listings tried: distinct files in some order
FileLists ==
  UNION {{fs \in [1..n -> SampleFiles] : \A i, j \in 1..n : i # j => fs[i] # fs[j]} :
           n \in 0..MaxFiles}

\* a turn priced in both ways: k hundredths of a dollar logged, k thousand
\* input tokens of a model at 3 dollars a million
PricedLine(k) ==
  [type |-> "assistant", costUSD |-> Num(k * 1000000), timestamp |-> Iso(60 + k),
   message |-> [model |-> "claude-3-5-sonnet-20241022", usage |-> [input_tokens |-> k * 1000]]]

\* the k-th log of a long-lived project: one turn, free every seventh time
NumberedFile(k) == LogFile("projA", "n" \o ToString(k), <<PricedLine(k % 7)>>)

\* the sizes of the long listings
LongSizes == {7, 24}

\* listings of more log files than the console lists, and than the charts show
LongLists == {[k \in 1..n |-> NumberedFile(k)] : n \in LongSizes}

Zone(std, dst, from, to) == [std |-> std, dst |-> dst, from |-> from, to |-> to]

UtcZone == Zone(0, 0, 0, 0)

\* the clocks the report is built at: while the logged days are recent, and
\* a month later
ReportNows == {80, 749}

\* daylight-saving time starts (first zone) or ends (second) ten days before
\* the later clock
ReportZones == {UtcZone, Zone(1, 2, 505, 5000), Zone(-5, -4, -5000, 510)}

\* the clocks getLast30Days is tried at: each hour of one day
ClockNows == 960..983

\* the hour, in a window of 30 days ending at a clock of ClockNows, at which a
\* zone's daylight-saving time starts or ends
ClockChanges == {480, 721, 950}

ClockOffsets == {-8, -5, 0, 1, 10}

\* zones without daylight-saving time, zones where it starts inside the
\* window and zones where it ends inside it
ClockZones ==
  {Zone(o, o, 0, 0) : o \in ClockOffsets}
  \cup {Zone(o, o + 1, c - o, 5000) : o \in ClockOffsets, c \in ClockChanges}
  \cup {Zone(o, o + 1, -5000, c - o - 1) : o \in ClockOffsets, c \in ClockChanges}

-----------------------------------------------------------------------------
(* Specifications *)

CostIdle == usage = Undefined /\ model = "" /\ cost = Num(0)

ParseIdle ==
  variant = "enhanced" /\ fed = <<>> /\ acc = AccInit /\ result = NoSummary /\ jobs = <<>>

NoDaily == [threw |-> FALSE, buckets |-> <<>>]

NoReport ==
  [threw |-> FALSE, conversationsWithCosts |-> <<>>, totalCost |-> Num(0),
   average |-> NoAverage,
   dailyData |-> <<>>, last30DaysData |-> <<>>, chartData |-> <<>>, tableRows |-> <<>>,
   input |-> <<>>]

NothingShown ==
  [totalCost |-> Num(0), withCosts |-> 0, average |-> NoAverage, analyzed |-> 0,
   sorted |-> <<>>, top |-> <<>>, input |-> <<>>]

OutputsIdle ==
  /\ called = {}
  /\ daily = NoDaily
  /\ days = <<>>
  /\ shown = NothingShown
  /\ report = NoReport

ReportIdle == files = <<>> /\ fsys = NoFaults /\ conversations = <<>> /\ now = 0 /\ tz = UtcZone /\ OutputsIdle

CostInit ==
  /\ pc = "call"
  /\ usage \in UsageObjects \cup {Undefined}
  /\ model \in ModelIds
  /\ cost = Num(0)
  /\ ParseIdle
  /\ ReportIdle

\* one call of calculateCost(usage, model)
CalculateCost ==
  /\ pc = "call"
  /\ cost' = calculateCost(usage, model)
  /\ pc' = "returned"
  /\ UNCHANGED <<usage, model, parseVars, reportVars>>

CostNext == CalculateCost

SpecCost == CostInit /\ [][CostNext]_vars

ParseInit ==
  /\ pc = "reading"
  /\ variant \in {"basic", "enhanced"}
  /\ fed = <<>>
  /\ acc = AccInit
  /\ result = NoSummary
  /\ jobs = <<>>
  /\ CostIdle
  /\ ReportIdle

\* one iteration of the for-await loop, on the next line of the log
ReadLine ==
  /\ pc = "reading"
  /\ Len(fed) < MaxLines
  /\ \E line \in SampleLines :
       /\ acc' = ProcessLine(variant, acc, line)
       /\ fed' = Append(fed, line)
  /\ UNCHANGED <<pc, variant, result, jobs, costVars, reportVars>>

\* the end of the log: the title is resolved and the summary returned
EndOfFile ==
  /\ pc = "reading"
  /\ ~FinishThrows(acc)
  /\ result' = Finish(acc, "session")
  /\ pc' = "done"
  /\ UNCHANGED <<variant, fed, acc, jobs, costVars, reportVars>>

\* the end of the log when the title chosen is not a string: the promise rejects
EndOfFileThrows ==
  /\ pc = "reading"
  /\ FinishThrows(acc)
  /\ pc' = "rejected"
  /\ UNCHANGED <<parseVars, costVars, reportVars>>

ParseNext == ReadLine \/ EndOfFile \/ EndOfFileThrows

SpecParse == ParseInit /\ [][ParseNext]_vars

ClockInit ==
  /\ pc = "clock"
  /\ now \in ClockNows
  /\ tz \in ClockZones
  /\ files = <<>> /\ fsys = NoFaults /\ conversations = <<>>
  /\ OutputsIdle
  /\ CostIdle
  /\ ParseIdle

\* one call of getLast30Days() at the clock now in the zone tz
GetLast30Days ==
  /\ pc = "clock"
  /\ days' = getLast30Days(tz, now)
  /\ pc' = "listed"
  /\ UNCHANGED <<files, fsys, conversations, now, tz, called, daily, shown, report,
                 costVars, parseVars>>

ClockNext == GetLast30Days

SpecClock == ClockInit /\ [][ClockNext]_vars

ReportInit ==
  /\ pc = "scan"
  /\ variant \in {"basic", "enhanced"}
  /\ files \in FileLists \cup LongLists
  /\ fsys = NoFaults
  /\ conversations = <<>>
  /\ now \in ReportNows
  /\ tz \in ReportZones
  /\ OutputsIdle
  /\ fed = <<>> /\ acc = AccInit /\ result = NoSummary /\ jobs = <<>>
  /\ CostIdle

\* analyzeAllConversations(): every file parsed, the summaries kept collected
Scan ==
  /\ pc = "scan"
  /\ conversations' = analyzeAllConversations(variant, files)
  /\ pc' = "corpus"
  /\ UNCHANGED <<files, fsys, now, tz, called, daily, days, shown, report, costVars, parseVars>>

\* one call of aggregateDailyCosts(conversations)
AggregateDailyCosts ==
  /\ pc = "corpus"
  /\ "aggregateDailyCosts" \notin called
  /\ daily' = aggregateDailyCosts(conversations)
  /\ called' = called \cup {"aggregateDailyCosts"}
  /\ UNCHANGED <<pc, files, fsys, conversations, now, tz, days, shown, report, costVars, parseVars>>

\* one call of displaySummary(conversations)
DisplaySummary ==
  /\ pc = "corpus"
  /\ "displaySummary" \notin called
  /\ shown' = displaySummary(conversations)
  /\ conversations' = shown'.input
  /\ called' = called \cup {"displaySummary"}
  /\ UNCHANGED <<pc, files, fsys, now, tz, daily, days, report, costVars, parseVars>>

\* one call of createHTMLReport(conversations)
CreateHTMLReport ==
  /\ pc = "corpus"
  /\ "createHTMLReport" \notin called
  /\ report' = createHTMLReport(conversations, tz, now)
  /\ conversations' = report'.input
  /\ called' = called \cup {"createHTMLReport"}
  /\ UNCHANGED <<pc, files, fsys, now, tz, daily, days, shown, costVars, parseVars>>

ReportNext == Scan \/ AggregateDailyCosts \/ DisplaySummary \/ CreateHTMLReport

SpecReport == ReportInit /\ [][ReportNext]_vars

\* the directories with a file in jsonlFiles
DirsOf(jsonlFiles) == {jsonlFiles[i].projectDir : i \in 1..Len(jsonlFiles)}

\* The projects directory is missing; or it exists and at most one of its
\* directories cannot be stat-ed or cannot be listed, and at most one of its
\* files cannot be read, on a runtime of either kind.
FaultsOf(jsonlFiles) ==
  {[NoFaults EXCEPT !.rootExists = FALSE]}
  \cup {[rootExists |-> TRUE, noStat |-> s, noList |-> l, noRead |-> r, streamErrors |-> e] :
          s \in {{}} \cup {{d} : d \in DirsOf(jsonlFiles)},
          l \in {{}} \cup {{d} : d \in DirsOf(jsonlFiles)},
          r \in {{}} \cup {{jsonlFiles[i]} : i \in 1..Len(jsonlFiles)},
          e \in StreamErrorModes}

\* if (conversations.length === 0)
NoConversationsNever(convs) == FALSE

NoConversations(convs) == Len(convs) = 0

MainInit ==
  /\ pc = "main"
  /\ variant \in {"basic", "enhanced"}
  /\ files \in FileLists
  /\ fsys \in FaultsOf(files)
  /\ Cardinality(fsys.noStat) + Cardinality(fsys.noList) <= 1
  /\ fsys.noRead = {} => fsys.streamErrors = "rejects"
  /\ fsys.rootExists \/ files = <<>>
  /\ conversations = <<>>
  /\ now \in ReportNows
  /\ tz = UtcZone
  /\ OutputsIdle
  /\ fed = <<>> /\ acc = AccInit /\ result = NoSummary /\ jobs = <<>>
  /\ CostIdle

\* const conversations = await analyzeAllConversations(); what it throws
\* rejects main and goes to main().catch(console.error)
MainScan ==
  /\ pc = "main"
  /\ LET scan == ScanOutcome(variant, fsys, files)
     IN /\ conversations' = scan.conversations
        /\ pc' = CASE scan.outcome = "returned" -> "scanned"
                   [] scan.outcome = "threw" -> "failed"
                   [] scan.outcome = "crashed" -> "crashed"
  /\ UNCHANGED <<files, fsys, now, tz, called, daily, days, shown, report, costVars, parseVars>>

\* console.log('No conversations found.'); return;
MainNoConversations ==
  /\ pc = "scanned"
  /\ NoConversations(conversations)
  /\ called' = called \cup {"notice"}
  /\ pc' = "done"
  /\ UNCHANGED <<files, fsys, conversations, now, tz, daily, days, shown, report, costVars, parseVars>>

\* displaySummary(conversations);
MainDisplaySummary ==
  /\ pc = "scanned"
  /\ ~NoConversations(conversations)
  /\ shown' = displaySummary(conversations)
  /\ conversations' = shown'.input
  /\ called' = called \cup {"displaySummary"}
  /\ pc' = "displayed"
  /\ UNCHANGED <<files, fsys, now, tz, daily, days, report, costVars, parseVars>>

\* const reportPath = createHTMLReport(conversations);
MainCreateHTMLReport ==
  /\ pc = "displayed"
  /\ report' = createHTMLReport(conversations, tz, now)
  /\ conversations' = report'.input
  /\ called' = called \cup {"createHTMLReport"}
  /\ pc' = IF report'.threw THEN "failed" ELSE "reported"
  /\ UNCHANGED <<files, fsys, now, tz, daily, days, shown, costVars, parseVars>>

\* exec(cmd, ...): the report opened in the browser
MainOpenBrowser ==
  /\ pc = "reported"
  /\ called' = called \cup {"exec"}
  /\ pc' = "done"
  /\ UNCHANGED <<files, fsys, conversations, now, tz, daily, days, shown, report, costVars, parseVars>>

MainNext ==
  \/ MainScan
  \/ MainNoConversations
  \/ MainDisplaySummary
  \/ MainCreateHTMLReport
  \/ MainOpenBrowser

SpecMain == MainInit /\ [][MainNext]_vars

-----------------------------------------------------------------------------
(* The parses of the files of a corpus, interleaved line by line: each call
   of parseJSONLFile has its own local variables, and a call that returns
   has its summary pushed on the corpus.  acc holds the local variables
   written last, by whichever call. *)

\* variables shared by the calls: each starts from what was written last
ParseLocalsShared(last) == last

\* let totalCost = 0; ... let firstUserMessage = ''; declared in each call
ParseLocals(last) == AccInit

InterleavedInit ==
  /\ pc = "parsing"
  /\ variant \in {"basic", "enhanced"}
  /\ files \in FileLists
  /\ jobs = [i \in 1..Len(files) |-> [state |-> "waiting", a |-> AccInit, next |-> 1]]
  /\ fed = <<>> /\ acc = AccInit /\ result = NoSummary
  /\ fsys = NoFaults /\ conversations = <<>> /\ now = 0 /\ tz = UtcZone
  /\ OutputsIdle
  /\ CostIdle

\* parseJSONLFile(filePath) is called for the file i
JobStart(i) ==
  /\ jobs[i].state = "waiting"
  /\ jobs' = [jobs EXCEPT ![i] = [state |-> "reading", a |-> ParseLocals(acc), next |-> 1]]
  /\ acc' = ParseLocals(acc)
  /\ UNCHANGED <<pc, variant, fed, result, costVars, reportVars>>

\* one iteration of the for-await loop of the call for the file i
JobReadLine(i) ==
  /\ jobs[i].state = "reading"
  /\ jobs[i].next <= Len(files[i].lines)
  /\ LET a == ProcessLine(variant, jobs[i].a, files[i].lines[jobs[i].next])
     IN /\ jobs' = [jobs EXCEPT ![i] = [state |-> "reading", a |-> a, next |-> jobs[i].next + 1]]
        /\ acc' = a
  /\ UNCHANGED <<pc, variant, fed, result, costVars, reportVars>>

\* the call for the file i returns; the scanner sets projectName and pushes
\* the summary it keeps
JobReturn(i) ==
  /\ jobs[i].state = "reading"
  /\ jobs[i].next > Len(files[i].lines)
  /\ ~FinishThrows(jobs[i].a)
  /\ LET conversation == [projectName |-> files[i].projectDir] @@ Finish(jobs[i].a, files[i].base)
     IN conversations' = IF variant = "enhanced" => conversation.messageCount > 0
                         THEN Append(conversations, conversation)
                         ELSE conversations
  /\ jobs' = [jobs EXCEPT ![i].state = "returned"]
  /\ UNCHANGED <<pc, variant, fed, acc, result, costVars,
                 files, fsys, now, tz, called, daily, days, shown, report>>

\* the call for the file i rejects, and the scanner's catch drops the file
JobThrows(i) ==
  /\ jobs[i].state = "reading"
  /\ jobs[i].next > Len(files[i].lines)
  /\ FinishThrows(jobs[i].a)
  /\ jobs' = [jobs EXCEPT ![i].state = "threw"]
  /\ UNCHANGED <<pc, variant, fed, acc, result, costVars, reportVars>>

InterleavedNext ==
  \/ \E i \in 1..Len(files) : JobStart(i)
  \/ \E i \in 1..Len(files) : JobReadLine(i)
  \/ \E i \in 1..Len(files) : JobReturn(i)
  \/ \E i \in 1..Len(files) : JobThrows(i)

SpecInterleaved == InterleavedInit /\ [][InterleavedNext]_vars

-----------------------------------------------------------------------------
(* Claims about calculateCost, under SpecCost *)

\* (usage.field || 0) written out: the count of a field, 0 when absent
TokensOf(u, f) == IF f \in DOMAIN u THEN u[f] ELSE 0

\* sum over the four kinds of tokens * price, for a price entry
PricedSum(u, price) ==
  IF u = Undefined THEN Num(0)
  ELSE Num(TokensOf(u, "input_tokens") * price.input
           + TokensOf(u, "output_tokens") * price.output
           + TokensOf(u, "cache_creation_input_tokens") * price.cache_write
           + TokensOf(u, "cache_read_input_tokens") * price.cache_read)

C2_UnknownModelCostsDefault ==
  (pc = "returned" /\ model \notin DOMAIN CLAUDE_PRICING) =>
     cost = PricedSum(usage, CLAUDE_PRICING["default"])

-----------------------------------------------------------------------------
(* Claims about parseJSONLFile, under SpecParse *)

\* a line that does not parse to a structured record
IsNoise(line) == line = Unparseable \/ line = JsonNull

\* a valid cost-bearing assistant line of the variant v, with the cost it bears
IsTurn(v, line) ==
  /\ ~IsNoise(line)
  /\ "type" \in DOMAIN line /\ line.type = "assistant"
  /\ IF v = "enhanced"
     THEN /\ "message" \in DOMAIN line
          /\ {"usage", "model"} \subseteq DOMAIN line.message
          /\ line.message.model # ""
     ELSE "costUSD" \in DOMAIN line /\ line.costUSD \notin {Num(0), NaN}

TurnCost(v, line) ==
  IF v = "enhanced" THEN calculateCost(line.message.usage, line.message.model)
  ELSE line.costUSD

RECURSIVE TurnCount(_, _)
TurnCount(v, lines) ==
  IF lines = <<>> THEN 0
  ELSE (IF IsTurn(v, Head(lines)) THEN 1 ELSE 0) + TurnCount(v, Tail(lines))

RECURSIVE TurnCostSum(_, _, _)
\* the costs of the turns of lines added one after the other to sum
TurnCostSum(v, sum, lines) ==
  IF lines = <<>> THEN sum
  ELSE TurnCostSum(v, IF IsTurn(v, Head(lines)) THEN JsAdd(sum, TurnCost(v, Head(lines))) ELSE sum,
                   Tail(lines))

OnlyTurnsAndNoise(v, lines) ==
  \A i \in 1..Len(lines) : IsNoise(lines[i]) \/ IsTurn(v, lines[i])

\* C3: a log made only of N valid cost-bearing assistant lines and M lines that
\* do not parse, in any order, is read to its end and gives a Session Summary
\* with turn count N and with the sum of the N turns' costs as its cost.
C3_MalformedLinesSkipped ==
  OnlyTurnsAndNoise(variant, fed) =>
     /\ pc \in {"reading", "done"}
     /\ acc.messageCount = TurnCount(variant, fed)
     /\ acc.totalCost = TurnCostSum(variant, Num(0), fed)
     /\ (pc = "reading" => ~FinishThrows(acc))
     /\ (pc = "done" => /\ result.messageCount = TurnCount(variant, fed)
                        /\ result.totalCost = TurnCostSum(variant, Num(0), fed))

C3_Witness ==
  /\ pc = "done"
  /\ variant = "enhanced"
  /\ fed = <<SonnetTurn, Unparseable, SonnetTurn>>
  /\ result.messageCount = 2
  /\ result.totalCost = Num(600000000)

\* a record carrying a direct cost value
HasDirectCost(line) ==
  /\ ~IsNoise(line)
  /\ "type" \in DOMAIN line /\ line.type = "assistant"
  /\ "costUSD" \in DOMAIN line /\ line.costUSD \notin {Num(0), NaN}

RECURSIVE EitherKindCount(_)
\* the assistant records carrying a direct cost or usage with a model
EitherKindCount(lines) ==
  IF lines = <<>> THEN 0
  ELSE (IF HasDirectCost(Head(lines)) \/ IsTurn("enhanced", Head(lines)) THEN 1 ELSE 0)
       + EitherKindCount(Tail(lines))

\* C4 as stated: the parser counts a turn for a record with a direct cost and
\* for a record with usage and model, so a log mixing both kinds has as many
\* turns as it has records of either kind.
C4_BothSourcesCounted ==
  pc = "done" => result.messageCount = EitherKindCount(fed)

\* C4 as amended: each parser reads one cost source.  The basic parser counts
\* the records with a truthy costUSD and adds that value as it is; the
\* enhanced parser counts the records with message.usage and a message.model
\* and adds calculateCost of them; neither looks at the other source.
C4_OneSourcePerVariant ==
  pc = "done" =>
     /\ result.messageCount = TurnCount(variant, fed)
     /\ result.totalCost = TurnCostSum(variant, Num(0), fed)
     /\ (variant = "basic" =>
           result.messageCount = Cardinality({i \in 1..Len(fed) : HasDirectCost(fed[i])}))
     /\ (variant = "enhanced" =>
           result.messageCount = Cardinality({i \in 1..Len(fed) : IsTurn("enhanced", fed[i])}))

\* a log mixing both kinds of record, read by the enhanced parser
C4_Witness ==
  /\ pc = "done"
  /\ variant = "enhanced"
  /\ fed = <<DirectCostLine, SonnetTurn>>
  /\ result.messageCount = 1
  /\ result.totalCost = Num(300000000)

\* the candidates a log holds for the title, by precedence
IsSummaryRecord(line) == ~IsNoise(line) /\ "type" \in DOMAIN line /\ line.type = "summary"

MetadataTitles(lines) ==
  {t \in UNION {{lines[i].metadata[k] : k \in DOMAIN lines[i].metadata \cap {"thread_summary", "summary"}} :
                  i \in {j \in 1..Len(lines) : IsSummaryRecord(lines[j]) /\ "metadata" \in DOMAIN lines[j]}} :
     t # Str(<<>>)}

SummaryTexts(lines) ==
  {lines[i].summary : i \in {j \in 1..Len(lines) :
      IsSummaryRecord(lines[j]) /\ "summary" \in DOMAIN lines[j] /\ lines[j].summary # Str(<<>>)}}

UserTexts(lines) ==
  {lines[i].text : i \in {j \in 1..Len(lines) :
      /\ ~IsNoise(lines[j]) /\ "type" \in DOMAIN lines[j] /\ lines[j].type = "user"
      /\ "text" \in DOMAIN lines[j] /\ lines[j].text.str /\ lines[j].text.chars # <<>>}}

\* a candidate as displayed: on one line, cut to 100 characters
Displayed(t) ==
  Str([i \in 1..(IF Len(t.chars) < 100 THEN Len(t.chars) ELSE 100) |->
         IF t.chars[i] = "\n" THEN " " ELSE t.chars[i]])

\* C5: the title returned is a metadata title if the log holds one, else a
\* free-text summary if it holds one, else a user message if it holds one,
\* else "Untitled conversation", wherever in the log those records stand.
C5_TitlePrecedence ==
  pc = "done" =>
     IF MetadataTitles(fed) # {}
     THEN result.conversationTitle \in {Displayed(t) : t \in MetadataTitles(fed)}
     ELSE IF SummaryTexts(fed) # {}
     THEN result.conversationTitle \in {Displayed(t) : t \in SummaryTexts(fed)}
     ELSE IF UserTexts(fed) # {}
     THEN result.conversationTitle \in {Displayed(t) : t \in UserTexts(fed)}
     ELSE result.conversationTitle = Untitled

\* the metadata title is met first, the summary and the user message after it
C5_Witness ==
  /\ pc = "done"
  /\ Len(fed) = 3
  /\ "metadata" \in DOMAIN fed[1]
  /\ fed[2] = [type |-> "summary", summary |-> Str(TextFix)]
  /\ fed[3] = [type |-> "user", text |-> Str(TextHello), timestamp |-> Iso(50)]
  /\ result.conversationTitle = Str(TextPlan)

-----------------------------------------------------------------------------
(* Claims about the aggregation and the report, under SpecReport *)

\* the elements of a sequence
Range(seq) == {seq[i] : i \in 1..Len(seq)}

\* the sessions listed in the buckets of a daily aggregation
Bucketed(buckets) == UNION {Range(buckets[k].conversations) : k \in 1..Len(buckets)}

ZeroTurn(c) == c.messageCount = 0

WithTurns(c) == c.messageCount > 0

Ran(f) == pc = "corpus" /\ f \in called

\* C6: a Session Summary with turn count zero is in neither ranking, in no
\* daily bucket and in no entry of the daily series, and the totals are
\* those of the corpus without it.
C6_ZeroTurnExcluded ==
  \A c \in Range(conversations) : ZeroTurn(c) =>
     /\ Ran("displaySummary") =>
          /\ c \notin Range(shown.sorted) \cup Range(shown.top)
          /\ shown.totalCost = displaySummary(SelectSeq(conversations, WithTurns)).totalCost
     /\ Ran("aggregateDailyCosts") => c \notin Bucketed(daily.buckets)
     /\ Ran("createHTMLReport") =>
          /\ c \notin Range(report.conversationsWithCosts) \cup Range(report.chartData)
          /\ c \notin Bucketed(report.dailyData) \cup Bucketed(report.last30DaysData)
          /\ report.totalCost
               = createHTMLReport(SelectSeq(conversations, WithTurns), tz, now).totalCost

\* the basic scanner kept a zero-turn session beside one that has a cost
C6_Witness ==
  /\ pc = "corpus"
  /\ called = {"displaySummary", "aggregateDailyCosts", "createHTMLReport"}
  /\ \E c \in Range(conversations) : ZeroTurn(c) /\ c.startTime # NullDate
  /\ ~report.threw
  /\ Len(report.conversationsWithCosts) = 1
  /\ Len(daily.buckets) = 1
  /\ Len(shown.top) = 1

\* a session that may contribute to a bucket
CostAndStart(c) == ~c.totalCost.nan /\ c.totalCost.v > 0 /\ c.startTime.kind # "null"

\* C7: no bucket lists a session whose cost is not strictly positive or whose
\* earliest timestamp is null, and the buckets are those of the collection
\* without such sessions.
C7_OnlyCostBearingInBuckets ==
  Ran("aggregateDailyCosts") =>
     /\ \A c \in Bucketed(daily.buckets) :
          ~c.totalCost.nan /\ c.totalCost.v > 0 /\ c.startTime.kind # "null"
     /\ daily = aggregateDailyCosts(SelectSeq(conversations, CostAndStart))

\* a session with a cost and no timestamp beside one that is in a bucket
C7_Witness ==
  /\ Ran("aggregateDailyCosts")
  /\ Len(daily.buckets) = 1
  /\ \E c \in Range(conversations) : c.totalCost = Num(25000000) /\ c.startTime = NullDate

\* the buckets listing the i-th session of the collection
BucketsOf(buckets, c) == {k \in 1..Len(buckets) : c \in Range(buckets[k].conversations)}

RECURSIVE CostsAdded(_)
CostsAdded(convs) ==
  IF convs = <<>> THEN 0 ELSE Head(convs).totalCost.v + CostsAdded(Tail(convs))

RECURSIVE BucketCostsAdded(_)
BucketCostsAdded(buckets) ==
  IF buckets = <<>> THEN 0 ELSE Head(buckets).totalCost.v + BucketCostsAdded(Tail(buckets))

\* what C8 says of the buckets
GroupedByDate(convs, buckets) ==
  /\ \A c \in Range(convs) : CostAndStart(c) =>
        /\ Cardinality(BucketsOf(buckets, c)) = 1
        /\ c.startTime.kind = "date"
        /\ \A k \in BucketsOf(buckets, c) : buckets[k].date = c.startTime.time \div 24
  /\ \A k \in 1..Len(buckets) :
        /\ buckets[k].totalCost = Num(CostsAdded(buckets[k].conversations))
        /\ buckets[k].conversationCount = Len(buckets[k].conversations)
        /\ buckets[k].conversationCount >= 1
  /\ \A k \in 1..(Len(buckets) - 1) : buckets[k].date < buckets[k + 1].date
  /\ BucketCostsAdded(buckets) = CostsAdded(SelectSeq(convs, CostAndStart))

\* C8: aggregateDailyCosts puts every session with positive cost and non-null
\* earliest timestamp in exactly one bucket, that of the UTC date of the
\* timestamp; a bucket's cost is the sum of its sessions' costs and its count
\* their number; the dates are distinct and ascending; the bucket costs add
\* up to the cost of the qualifying sessions.
C8_GroupedByUtcDate ==
  Ran("aggregateDailyCosts") => GroupedByDate(conversations, daily.buckets)

\* Where C8 does hold: for the collections in which no session with a cost
\* starts at an Invalid Date.
C8_HoldsWithValidDates ==
  (Ran("aggregateDailyCosts") /\ ~daily.threw) => GroupedByDate(conversations, daily.buckets)

\* C9: the daily series createHTMLReport builds has exactly 30 entries.
C9_ThirtyEntries ==
  (Ran("createHTMLReport") /\ ~report.threw) => Len(report.last30DaysData) = 30

\* the corpus has a bucket, and no session of it lies within the 30 days
C9_Witness ==
  /\ Ran("createHTMLReport")
  /\ ~report.threw
  /\ Len(report.dailyData) = 1
  /\ Len(report.last30DaysData) = 30
  /\ \A k \in 1..30 : report.last30DaysData[k].conversations = <<>>

-----------------------------------------------------------------------------
(* Claims about getLast30Days, under SpecClock *)

\* C10: the dates getLast30Days returns are the 30 consecutive UTC dates that
\* end with the UTC date of the current instant, in any time zone.
C10_ConsecutiveUtcDates ==
  pc = "listed" => days = [k \in 1..30 |-> (now \div 24) - 30 + k]

\* Where C10 does hold: in a zone whose offset does not change.
C10_HoldsWithoutOffsetChange ==
  (pc = "listed" /\ tz.std = tz.dst) => days = [k \in 1..30 |-> (now \div 24) - 30 + k]

-----------------------------------------------------------------------------
(* Claims about the ranking, under SpecReport *)

\* the place of session c in the collection convs
PlaceIn(convs, c) == CHOOSE i \in 1..Len(convs) : convs[i] = c

\* ranking holds sessions of convs, each at most once, by non-increasing
\* cost, and sessions of equal cost in the order they have in convs
RankedStably(convs, ranking) ==
  /\ \A i \in 1..Len(ranking) : \E k \in 1..Len(convs) : convs[k] = ranking[i]
  /\ \A i, j \in 1..Len(ranking) :
       i < j =>
         /\ ranking[i].totalCost.v >= ranking[j].totalCost.v
         /\ ranking[i].totalCost.v = ranking[j].totalCost.v
              => PlaceIn(convs, ranking[i]) < PlaceIn(convs, ranking[j])

\* C11: the ranking displaySummary and createHTMLReport produce is in
\* non-increasing order of cost, and sessions of equal cost keep the order
\* they have in the input collection.
C11_RankingSortedAndStable ==
  /\ Ran("displaySummary") => RankedStably(conversations, shown.sorted)
  /\ (Ran("createHTMLReport") /\ ~report.threw)
       => RankedStably(conversations, report.conversationsWithCosts)

\* both functions have ranked two sessions of equal cost
C11_Witness ==
  /\ Ran("displaySummary")
  /\ Ran("createHTMLReport")
  /\ ~report.threw
  /\ Len(shown.sorted) = 2
  /\ shown.sorted[1].totalCost = shown.sorted[2].totalCost
  /\ Len(report.conversationsWithCosts) = 2
  /\ report.conversationsWithCosts[1].totalCost = report.conversationsWithCosts[2].totalCost

-----------------------------------------------------------------------------
(* Claims about a whole run of main, under SpecMain *)

\* main has called the function f
MainRan(f) == pc \in {"displayed", "reported", "failed", "done"} /\ f \in called

\* C12: whenever main runs displaySummary or createHTMLReport on a corpus,
\* also on a non-empty one in which no session has a positive cost, the
\* average cost per session they show is a finite number.
C12_AverageFinite ==
  /\ MainRan("displaySummary") => shown.average.kind = "finite"
  /\ (MainRan("createHTMLReport") /\ ~report.threw) => report.average.kind = "finite"

\* Where C12 does hold: when some session of the corpus has a positive cost.
C12_HoldsWithCostBearingSession ==
  /\ (MainRan("displaySummary") /\ shown.withCosts > 0) => shown.average.kind = "finite"
  /\ (MainRan("createHTMLReport") /\ ~report.threw /\ report.conversationsWithCosts # <<>>)
       => report.average.kind = "finite"

\* the corpus of two projects with one file each: file A with one assistant
\* turn of 500,000 input and 100,000 output tokens on
\* claude-3-5-sonnet-20241022, file B without an assistant turn
TwoProjects ==
  /\ variant = "enhanced"
  /\ fsys = NoFaults
  /\ files \in {<<LogFile("projA", "s1", <<SonnetTurn>>), LogFile("projB", "s1", <<UserLine>>)>>,
                <<LogFile("projB", "s1", <<UserLine>>), LogFile("projA", "s1", <<SonnetTurn>>)>>}

\* C13: end to end, on the corpus of two projects with one file each,
\* session A costs 3.00, session B is in neither the ranking nor the totals,
\* the total cost is 3.00 and the ranking has length 1.
C13_EndToEndTotals ==
  TwoProjects =>
    /\ pc \notin {"failed", "crashed"}
    /\ MainRan("displaySummary") =>
         /\ shown.totalCost = Num(300000000)
         /\ Len(shown.sorted) = 1
         /\ shown.sorted[1].projectName = "projA"
         /\ shown.sorted[1].totalCost = Num(300000000)
    /\ MainRan("createHTMLReport") =>
         /\ report.totalCost = Num(300000000)
         /\ Len(report.conversationsWithCosts) = 1
         /\ report.conversationsWithCosts[1].projectName = "projA"
         /\ report.conversationsWithCosts[1].totalCost = Num(300000000)

\* main has run to its end on the corpus of two projects
C13_Witness ==
  /\ TwoProjects
  /\ pc = "done"
  /\ called = {"displaySummary", "createHTMLReport", "exec"}
  /\ report.totalCost = Num(300000000)

-----------------------------------------------------------------------------
(* Claims about the trackers of parseJSONLFile, under SpecParse *)

\* the places of the parsed records of lines that carry a timestamp field
Carrying(lines) ==
  {i \in 1..Len(lines) : ~IsNoise(lines[i]) /\ "timestamp" \in DOMAIN lines[i]}

\* the instants their timestamps name
Instants(lines) == {lines[i].timestamp.t : i \in {j \in Carrying(lines) : lines[j].timestamp.iso}}

Least(S) == CHOOSE x \in S : \A y \in S : x <= y

Greatest(S) == CHOOSE x \in S : \A y \in S : x >= y

\* startTime and endTime are the extremes of the timestamps of lines
ExtremesOf(lines, a) ==
  /\ a.startTime = NullDate <=> Carrying(lines) = {}
  /\ a.endTime = NullDate <=> Carrying(lines) = {}
  /\ Instants(lines) # {} =>
       /\ a.startTime = DateAt(Least(Instants(lines)))
       /\ a.endTime = DateAt(Greatest(Instants(lines)))
  /\ (a.startTime # NullDate /\ a.endTime # NullDate) =>
       /\ a.startTime.kind = "date"
       /\ a.endTime.kind = "date"
       /\ a.startTime.time <= a.endTime.time

\* C14: after any sequence of lines, startTime is the least and endTime the
\* greatest of the timestamps of the parsed records that carry one, of
\* whatever kind; both are null exactly when there is no such record, and
\* when both are set, startTime <= endTime.
C14_TimestampExtremes == ExtremesOf(fed, acc)

\* Where C14 does hold: in a log whose timestamps all name an instant and
\* in which no record makes the body of the loop raise before it reaches
\* the timestamp.
C14_HoldsWithReadableTimestamps ==
  (/\ \A i \in Carrying(fed) : fed[i].timestamp.iso
   /\ \A i \in 1..Len(fed) :
        ~(/\ ~IsNoise(fed[i])
          /\ TypeIs(fed[i], "user")
          /\ "text" \in DOMAIN fed[i]
          /\ ~fed[i].text.str))
    => ExtremesOf(fed, acc)

-----------------------------------------------------------------------------
(* Claims about the first user message and the session name, under SpecParse *)

\* the places of the records of kind "user"
UserPlaces(lines) == {i \in 1..Len(lines) : ~IsNoise(lines[i]) /\ TypeIs(lines[i], "user")}

\* the places of those whose text is a non-empty string
UserTextPlaces(lines) ==
  {i \in UserPlaces(lines) :
     "text" \in DOMAIN lines[i] /\ lines[i].text.str /\ lines[i].text.chars # <<>>}

\* the first 100 characters of a text
Cut100(t) == Str(SubSeq(t.chars, 1, IF Len(t.chars) < 100 THEN Len(t.chars) ELSE 100))

\* once set, the first user message is left as it is
FirstUserMessageKept ==
  [][acc.firstUserMessage # Str(<<>>) => acc'.firstUserMessage = acc.firstUserMessage]_vars

\* C15 as stated: the first user message is the text, cut to 100 characters,
\* of the first record of kind "user" in log order.
C15_FirstUserRecordSets ==
  IF UserPlaces(fed) = {} THEN acc.firstUserMessage = Str(<<>>)
  ELSE /\ "text" \in DOMAIN fed[Least(UserPlaces(fed))]
       /\ fed[Least(UserPlaces(fed))].text.str
       /\ acc.firstUserMessage = Cut100(fed[Least(UserPlaces(fed))].text)

\* C15, amended: the first user message is the text, cut to 100 characters,
\* of the first record of kind "user" whose text is a non-empty string, and
\* empty while there is none; once set, no later record changes it.
C15_FirstUserTextSets ==
  /\ [](IF UserTextPlaces(fed) = {} THEN acc.firstUserMessage = Str(<<>>)
        ELSE acc.firstUserMessage = Cut100(fed[Least(UserTextPlaces(fed))].text))
  /\ FirstUserMessageKept

\* three user records: the first without a text, the second with a text of
\* more than 100 characters, which is taken and cut, the third with another
\* text, which is not
C15_Witness ==
  /\ Len(fed) = 3
  /\ UserPlaces(fed) = {1, 2, 3}
  /\ UserTextPlaces(fed) = {2, 3}
  /\ Len(fed[2].text.chars) > 100
  /\ fed[3].text # fed[2].text
  /\ acc.firstUserMessage = Cut100(fed[2].text)

\* the places of the summary records that carry metadata
MetadataPlaces(lines) ==
  {i \in 1..Len(lines) : IsSummaryRecord(lines[i]) /\ "metadata" \in DOMAIN lines[i]}

\* the name the metadata md gives: the working directory, else cwd, else
\* the literal Unknown
NameIn(md) ==
  IF "workingDirectory" \in DOMAIN md /\ md.workingDirectory # Str(<<>>) THEN md.workingDirectory
  ELSE IF "cwd" \in DOMAIN md /\ md.cwd # Str(<<>>) THEN md.cwd
  ELSE Str(<<"U", "n", "k", "n", "o", "w", "n">>)

\* C20 as stated: once a summary record has set conversationName, no later
\* record changes it.
C20_NameSetOnce ==
  [][acc.conversationName # Str(<<>>) => acc'.conversationName = acc.conversationName]_vars

\* C20, amended: conversationName is the name given by the metadata of the
\* last summary record that carries metadata, and empty while there is
\* none: every such record sets it anew, and no other record changes it.
C20_LastMetadataNames ==
  IF MetadataPlaces(fed) = {} THEN acc.conversationName = Str(<<>>)
  ELSE acc.conversationName = NameIn(fed[Greatest(MetadataPlaces(fed))].metadata)

\* two summary records with metadata giving different names, and then a
\* record of another kind: the name is that of the second
C20_Witness ==
  /\ Len(fed) = 3
  /\ MetadataPlaces(fed) = {1, 2}
  /\ NameIn(fed[1].metadata) # NameIn(fed[2].metadata)
  /\ acc.conversationName = NameIn(fed[2].metadata)

-----------------------------------------------------------------------------
(* Claims about the scan, under SpecMain *)

RECURSIVE FilesOfDirs(_, _)
\* the files of the directories dirs, directory by directory
FilesOfDirs(jsonlFiles, dirs) ==
  IF dirs = <<>> THEN <<>>
  ELSE SelectSeq(jsonlFiles, LAMBDA f : f.projectDir = Head(dirs))
       \o FilesOfDirs(jsonlFiles, Tail(dirs))

\* the files the scan can reach and read, in the order it meets them
Reachable(jsonlFiles, fs) ==
  SelectSeq(FilesOfDirs(jsonlFiles, ReadRoot(jsonlFiles)),
            LAMBDA f : /\ f.projectDir \notin fs.noStat \cup fs.noList
                       /\ f \notin fs.noRead)

\* analyzeAllConversations has returned the sessions of the files it can
\* reach and read
ScanAbsorbedFaults ==
  /\ pc # "crashed"
  /\ ~(pc = "failed" /\ called = {})
  /\ conversations = analyzeAllConversations(variant, Reachable(files, fsys))

\* C16: a failure to open, read or parse one log file does not abort the
\* scan: it returns normally, with the sessions of all other files.
C16_FileFailureAbsorbed ==
  (pc # "main" /\ fsys.rootExists /\ fsys.noStat = {} /\ fsys.noList = {})
    => ScanAbsorbedFaults

\* Where C16 does hold: on a runtime that turns the error of the stream into
\* a rejection of the parse, and everywhere for the files that are read and
\* fail in the parse.
C16_HoldsWhereStreamErrorsReject ==
  (/\ pc # "main"
   /\ fsys.rootExists /\ fsys.noStat = {} /\ fsys.noList = {}
   /\ fsys.streamErrors = "rejects")
    => ScanAbsorbedFaults

\* C17: a project directory that cannot be listed or stat-ed is skipped: the
\* scan returns the sessions of the other directories and raises no error.
C17_DirectoryFailureSkipped ==
  (pc # "main" /\ fsys.rootExists /\ fsys.noRead = {}) => ScanAbsorbedFaults

\* C18: when the projects directory does not exist the scan returns an empty
\* corpus and raises nothing, and main ends with the no-conversations notice
\* printed and neither displaySummary nor createHTMLReport nor the browser
\* launch called; whenever the corpus is empty, no summary, average or
\* report is produced.
C18_EmptyCorpusEndsWithNotice ==
  /\ (~fsys.rootExists /\ pc # "main") => (pc \in {"scanned", "done"} /\ conversations = <<>>)
  /\ (pc # "main" /\ conversations = <<>>) =>
       /\ called \subseteq {"notice"}
       /\ shown = NothingShown
       /\ report = NoReport
  /\ (pc = "done" /\ conversations = <<>>) => called = {"notice"}

\* main has ended on a missing projects directory
C18_Witness ==
  /\ ~fsys.rootExists
  /\ pc = "done"
  /\ conversations = <<>>
  /\ called = {"notice"}

\* C19 as stated: the conversationIds of the corpus are pairwise distinct.
C19_IdsDistinct ==
  pc # "main" =>
    \A i, j \in 1..Len(conversations) :
      i # j => conversations[i].conversationId # conversations[j].conversationId

\* C19, amended: every session of the corpus bears the base name of its log
\* file and the name of the directory of that file, and the pairs of
\* projectName and conversationId are pairwise distinct.
C19_IdsDistinctWithinProject ==
  pc # "main" =>
    /\ \A i \in 1..Len(conversations) :
         \E k \in 1..Len(files) :
           /\ files[k].projectDir = conversations[i].projectName
           /\ files[k].base = conversations[i].conversationId
    /\ \A i, j \in 1..Len(conversations) :
         i # j => \/ conversations[i].conversationId # conversations[j].conversationId
                  \/ conversations[i].projectName # conversations[j].projectName

\* the corpus holds two sessions of one conversationId, from log files of
\* the same name in two project directories
C19_Witness ==
  /\ pc = "scanned"
  /\ Len(conversations) = 2
  /\ conversations[1].conversationId = conversations[2].conversationId
  /\ conversations[1].projectName # conversations[2].projectName

-----------------------------------------------------------------------------
(* Claims about the Session Summary parseJSONLFile returns, under SpecParse *)

\* the characters that break a line
LineBreaks == {"\n", "\r"}

\* C21: the title of the returned Session Summary is one line of at most
\* 100 characters: it holds no line-break character and is never longer
\* than 100, whichever candidate was chosen.
C21_TitleSingleLine ==
  pc = "done" =>
    /\ Len(result.conversationTitle.chars) <= 100
    /\ \A i \in 1..Len(result.conversationTitle.chars) :
         result.conversationTitle.chars[i] \notin LineBreaks

\* What does hold of every returned title: at most 100 characters, none of
\* them a line feed.
C21_HoldsForLineFeeds ==
  pc = "done" =>
    /\ Len(result.conversationTitle.chars) <= 100
    /\ \A i \in 1..Len(result.conversationTitle.chars) :
         result.conversationTitle.chars[i] # "\n"

\* the duration is the minutes from the earliest to the latest timestamp,
\* 0 when either is absent, and a number that is at least 0
DurationOf(r) ==
  /\ ~r.duration.nan
  /\ r.duration.v >= 0
  /\ IF r.startTime # NullDate /\ r.endTime # NullDate
     THEN r.duration = Num((r.endTime.time - r.startTime.time) * 60)
     ELSE r.duration = Num(0)

\* C22: the duration of the returned Session Summary is latest minus
\* earliest timestamp in minutes when both are present and 0 when either
\* is absent; it is always a number greater than or equal to 0.
C22_DurationInMinutes == pc = "done" => DurationOf(result)

\* Where C22 does hold: when the trackers hold no Invalid Date.
C22_HoldsWithValidTimestamps ==
  (pc = "done" /\ result.startTime.kind # "invalid" /\ result.endTime.kind # "invalid")
    => DurationOf(result)

-----------------------------------------------------------------------------
(* Claims about the daily series and the rankings, under SpecReport *)

\* the buckets of dailyData that bear the date of the entry e
BucketsAt(dailyData, e) == {b \in Range(dailyData) : b.date = e.date}

\* the entry e shows the bucket of its date, or nothing when there is none,
\* and lists only sessions with a positive cost that start on its date
EntryShowsBucket(dailyData, e) ==
  /\ IF BucketsAt(dailyData, e) = {}
     THEN e.cost = Num(0) /\ e.conversations = <<>>
     ELSE \A b \in BucketsAt(dailyData, e) :
            e.cost = b.totalCost /\ e.conversations = b.conversations
  /\ \A c \in Range(e.conversations) :
       /\ ~c.totalCost.nan /\ c.totalCost.v > 0
       /\ c.startTime.kind = "date"
       /\ c.startTime.time \div 24 = e.date

\* the dates of the series
SeriesDates == {report.last30DaysData[k].date : k \in 1..Len(report.last30DaysData)}

\* C23: each entry of the daily series has the cost and the sessions of the
\* bucket of its date when aggregateDailyCosts made one, and cost 0 and no
\* session otherwise; every session listed has a positive cost and starts on
\* the UTC date of its entry; a session that starts outside the dates of the
\* series is in no entry.
C23_SeriesShowsBuckets ==
  (Ran("createHTMLReport") /\ ~report.threw) =>
    /\ \A k \in 1..Len(report.last30DaysData) :
         EntryShowsBucket(report.dailyData, report.last30DaysData[k])
    /\ \A c \in Range(conversations) :
         (c.startTime.kind = "date" /\ c.startTime.time \div 24 \notin SeriesDates)
           => \A k \in 1..Len(report.last30DaysData) :
                c \notin Range(report.last30DaysData[k].conversations)

\* the series lists one session and leaves one out: two sessions with a
\* cost, one that starts inside the 30 days and one that starts before them
C23_Witness ==
  /\ Ran("createHTMLReport")
  /\ ~report.threw
  /\ Len(report.dailyData) = 2
  /\ report.dailyData[1].date \notin SeriesDates
  /\ report.dailyData[2].date \in SeriesDates
  /\ \E k \in 1..Len(report.last30DaysData) :
       /\ report.last30DaysData[k].conversations # <<>>
       /\ report.last30DaysData[k].cost = report.dailyData[2].totalCost

\* C24: aggregateDailyCosts, displaySummary and createHTMLReport leave the
\* collection they are given as it was: the same sessions in the same order
\* with the same fields; so a second run of a step on the collection, with
\* the same clock, gives what the first run gave.
C24_InputLeftAsItWas ==
  pc = "corpus" =>
    /\ conversations = analyzeAllConversations(variant, files)
    /\ Ran("aggregateDailyCosts") => daily = aggregateDailyCosts(conversations)
    /\ Ran("displaySummary") => shown = displaySummary(conversations)
    /\ Ran("createHTMLReport") => report = createHTMLReport(conversations, tz, now)

\* the three steps have run on a collection that is not in the order of the
\* ranking: the cheaper of its two cost-bearing sessions comes first
C24_Witness ==
  /\ pc = "corpus"
  /\ called = {"aggregateDailyCosts", "displaySummary", "createHTMLReport"}
  /\ ~report.threw
  /\ Len(conversations) = 2
  /\ Len(report.conversationsWithCosts) = 2
  /\ conversations[1].totalCost.v < conversations[2].totalCost.v
  /\ report.conversationsWithCosts[1] = conversations[2]

-----------------------------------------------------------------------------
(* Claims about the accumulators of parseJSONLFile, under SpecParse *)

\* the turn count and the cost are those of the turns read so far, and the
\* cost is a number that is not negative
TurnsTracked ==
  /\ acc.messageCount = TurnCount("enhanced", fed)
  /\ acc.totalCost = TurnCostSum("enhanced", Num(0), fed)
  /\ ~acc.totalCost.nan
  /\ acc.totalCost.v >= 0

\* a line adds to the turn count and to the cost, or leaves them, and leaves
\* them when it is not a turn
TurnsOnlyAdded ==
  fed' # fed =>
    /\ acc'.messageCount >= acc.messageCount
    /\ ~acc'.totalCost.nan /\ acc'.totalCost.v >= acc.totalCost.v
    /\ ~IsTurn("enhanced", fed'[Len(fed')]) =>
         (acc'.messageCount = acc.messageCount /\ acc'.totalCost = acc.totalCost)

\* C26: at every point of the pass of the enhanced parseJSONLFile the turn
\* count is the number of assistant records read so far that carry usage and
\* a non-empty model, and the cost is the sum of calculateCost over them;
\* both start at zero, never decrease and are left unchanged by every other
\* record, and the cost is never negative.
C26_TurnsAndCostTracked ==
  /\ [](variant = "enhanced" => TurnsTracked)
  /\ [][variant = "enhanced" => TurnsOnlyAdded]_vars

\* Where C26 does hold: in a log none of whose turns has a cost of NaN.
C26_HoldsForPricedTurns ==
  /\ []((/\ variant = "enhanced"
         /\ \A i \in 1..Len(fed) :
              IsTurn("enhanced", fed[i]) => ~TurnCost("enhanced", fed[i]).nan)
        => TurnsTracked)
  /\ [][(/\ variant = "enhanced"
          /\ \A i \in 1..Len(fed') :
               IsTurn("enhanced", fed'[i]) => ~TurnCost("enhanced", fed'[i]).nan)
         => TurnsOnlyAdded]_vars

-----------------------------------------------------------------------------
(* Claims about unparseable timestamps end to end, under SpecMain *)

\* no session starts or ends at an Invalid Date, and every duration is a
\* number that is not negative
TrackersValid(convs) ==
  \A c \in Range(convs) :
    /\ c.startTime.kind # "invalid"
    /\ c.endTime.kind # "invalid"
    /\ ~c.duration.nan
    /\ c.duration.v >= 0

\* C27: a record whose timestamp is not a parseable date is harmless end to
\* end: it never becomes the earliest or latest timestamp of its session,
\* the duration stays a finite number that is not negative, and
\* createHTMLReport, with the aggregateDailyCosts it calls, completes
\* without raising an error.
C27_UnparseableTimestampHarmless ==
  MainRan("createHTMLReport") =>
    /\ TrackersValid(conversations)
    /\ ~report.threw
    /\ pc # "failed"

\* Where C27 does hold: for a corpus without such a record, and also when
\* the unparseable timestamp comes after a valid one of its session.
C27_HoldsWhenFirstTimestampValid ==
  (/\ MainRan("createHTMLReport")
   /\ \A i \in 1..Len(files) :
        \A k \in Carrying(files[i].lines) :
          (\A j \in Carrying(files[i].lines) : k <= j) => files[i].lines[k].timestamp.iso)
    => /\ TrackersValid(conversations)
       /\ ~report.threw
       /\ pc # "failed"

-----------------------------------------------------------------------------
(* Claims about interleaved parses, under SpecInterleaved *)

\* every call of parseJSONLFile is over
AllParsed == \A i \in 1..Len(jobs) : jobs[i].state \in {"returned", "threw"}

\* the corpus of the scan that parses the files one after the other
OneByOne == analyzeAllConversations(variant, files)

\* the date, cost and count of each bucket
BucketFigures(d) ==
  [threw |-> d.threw,
   figures |-> [k \in 1..Len(d.buckets) |->
                  [date |-> d.buckets[k].date, totalCost |-> d.buckets[k].totalCost,
                   conversationCount |-> d.buckets[k].conversationCount]]]

\* the costs down a ranking
RankedCosts(convs) ==
  [k \in 1..Len(SortByCost(Filter(convs))) |-> SortByCost(Filter(convs))[k].totalCost]

-----------------------------------------------------------------------------
(* Claims about a line whose processing raises, under SpecParse *)

\* The try block raises on a line when JSON.parse rejects its text, when the
\* parsed value is null (message.type), or when the record is a user record
\* whose text is about to be cut and is not a string.
LineRaises(a, line) ==
  \/ line = Unparseable
  \/ line = JsonNull
  \/ /\ TypeIs(line, "user")
     /\ ~Truthy(a.firstUserMessage)
     /\ HasText(line, "text")
     /\ ~line.text.str

\* C28: whenever processing a line raises an error, every accumulator (cost,
\* turn count, project name, title, summary, first user message, earliest and
\* latest timestamp) has the same value after the line as before it.
C28_RaisingLineChangesNothing ==
  [][(Len(fed') = Len(fed) + 1 /\ LineRaises(acc, fed'[Len(fed')])) => acc' = acc]_vars

\* a user record with a non-string text and a timestamp was read after a line
\* that had set the accumulators, and the accumulators are those of that line
C28_Witness ==
  /\ Len(fed) = 2
  /\ TypeIs(fed[2], "user") /\ HasText(fed[2], "text") /\ ~fed[2].text.str
  /\ "timestamp" \in DOMAIN fed[2] /\ fed[2].timestamp.iso
  /\ acc = ProcessLine(variant, AccInit, fed[1])
  /\ acc # AccInit
  /\ ~Truthy(acc.firstUserMessage)

-----------------------------------------------------------------------------
(* Claims about the two top lists, under SpecReport *)

\* how many times x occurs in seq
Occurrences(seq, x) == Cardinality({i \in 1..Len(seq) : seq[i] = x})

\* ranking holds each session of convs with a cost above 0 as many times as
\* convs holds it, and nothing else
RanksCostBearing(convs, ranking) ==
  \A c \in Range(convs) \cup Range(ranking) :
    Occurrences(ranking, c) =
      IF ~c.totalCost.nan /\ c.totalCost.v > 0 THEN Occurrences(convs, c) ELSE 0

\* the first min(n, Len(seq)) elements of seq
FirstOf(seq, n) == [k \in 1..(IF Len(seq) < n THEN Len(seq) ELSE n) |-> seq[k]]

RECURSIVE CostsSummed(_)
\* the costs of the sessions of seq added up
CostsSummed(seq) ==
  IF seq = <<>> THEN 0 ELSE Head(seq).totalCost.v + CostsSummed(Tail(seq))

\* what displaySummary printed is the head of a ranking of the corpus
ConsoleShowsRanking ==
  /\ RanksCostBearing(conversations, shown.sorted)
  /\ shown.top = FirstOf(shown.sorted, 5)
  /\ shown.totalCost = Num(CostsSummed(shown.sorted))

\* what createHTMLReport charted and tabulated is the head of a ranking of
\* the corpus, the one displaySummary printed from
ReportShowsRanking ==
  /\ RanksCostBearing(conversations, report.conversationsWithCosts)
  /\ report.chartData = FirstOf(report.conversationsWithCosts, 20)
  /\ report.tableRows = FirstOf(report.conversationsWithCosts, 20)
  /\ report.totalCost = Num(CostsSummed(report.conversationsWithCosts))
  /\ Ran("displaySummary") => report.conversationsWithCosts = shown.sorted

\* C29: for every corpus the ranking is a permutation of exactly the sessions
\* with cost > 0, displaySummary prints its first min(5, n) elements,
\* createHTMLReport charts and tabulates its first min(20, n) elements, and
\* the reported total is the sum of the costs of all n ranked sessions.
C29_TopListsArePrefixesOfOneRanking ==
  /\ Ran("displaySummary") => ConsoleShowsRanking
  /\ Ran("createHTMLReport") => ReportShowsRanking

\* the same holds of displaySummary on every corpus, and of createHTMLReport
\* whenever it gets as far as rendering; both lists are cut short on the
\* long listings
C29_HoldsWhenReportIsRendered ==
  /\ Ran("displaySummary") => ConsoleShowsRanking
  /\ (Ran("createHTMLReport") /\ ~report.threw) => ReportShowsRanking

\* both lists were cut short: more than 20 sessions ranked
C29_BothListsCut ==
  /\ Ran("displaySummary")
  /\ Ran("createHTMLReport")
  /\ ~report.threw
  /\ Len(shown.sorted) > 20
  /\ Len(shown.top) = 5
  /\ Len(report.chartData) = 20

-----------------------------------------------------------------------------
(* Claims about what the scanner keeps, under SpecMain *)

\* the files in the order the scan meets them: directory by directory, and
\* within a directory in the order of its listing
Enumerated == FilesOfDirs(files, ReadRoot(files))

\* the parse of f returned a summary
ParsedSuccessfully(f) == f \notin fsys.noRead /\ ~ParseThrows(variant, f)

\* the files that contribute a session
Contributing ==
  SelectSeq(Enumerated,
            LAMBDA f : /\ ParsedSuccessfully(f)
                       /\ (variant = "enhanced" => TurnCount("enhanced", f.lines) >= 1))

\* C30: in the enhanced scanner every session of the returned corpus has a
\* turn count >= 1 and the name of its directory as projectName, and a file
\* with no turn is parsed but not appended; in the basic scanner every
\* successfully parsed file contributes exactly one session, with turns or
\* without; in both the corpus is in the order in which the files were
\* enumerated.
C30_RetentionPolicy ==
  pc = "scanned" =>
    /\ Len(conversations) = Len(Contributing)
    /\ \A i \in 1..Len(conversations) :
         /\ conversations[i].conversationId = Contributing[i].base
         /\ conversations[i].projectName = Contributing[i].projectDir
         /\ conversations[i] = Conversation(variant, Contributing[i])
         /\ variant = "enhanced" => conversations[i].messageCount >= 1

\* the enhanced scanner has parsed two files and returned the session of the
\* second alone, named after its directory: the first has no turn
C30_Witness ==
  /\ pc = "scanned"
  /\ variant = "enhanced"
  /\ Len(files) = 2
  /\ ParsedSuccessfully(files[1])
  /\ TurnCount("enhanced", files[1].lines) = 0
  /\ Len(conversations) = 1
  /\ conversations[1].conversationId = files[2].base
  /\ conversations[1].projectName = files[2].projectDir

====
